---- MODULE Spec2Model ----
(***************************************************************************)
(* The recording session of playwright-codegen (class Codegen): the event  *)
(* normalizer (consume), the script renderer (parse), the key label        *)
(* resolver (getCodegenKey) and the debounced write cycle (attach, write). *)
(***************************************************************************)
EXTENDS Integers, Sequences, FiniteSets, TLC

VARIABLES
    events,      \* Codegen.events: the action log
    recording,   \* Codegen.recording
    down,        \* Codegen.down: the mouse button is held
    steps,       \* Codegen.steps: stack of open step names
    counter,     \* Codegen.counter: auto-name counter of screenshots
    timerId,     \* the debounced write has a timer running
    sinceCall,   \* ticks since the last call of the debounced write
    file,        \* lines of the script file as last written
    formatted,   \* the last formatting pass over the file succeeded
    snapshots,   \* names of the snapshot images persisted
    inflight,    \* captureScreenshot calls that passed the check, not yet emitted
    outcome,     \* what the last event or API call came to
    quiet,       \* ticks since the last accepted event
    burst,       \* accepted events since the last write
    run,         \* accepted mousemoves in a row, no other accepted event between
    lastMove,    \* coordinates of the last accepted mousemove
    n            \* number of events and API calls so far

vars == <<events, recording, down, steps, counter, timerId, sinceCall, file,
          formatted, snapshots, inflight, outcome, quiet, burst, run,
          lastMove, n>>

-----------------------------------------------------------------------------
(* Bounds of the model *)

MaxEvents == 3        \* events and API calls in one behaviour
MaxDragEvents == 4    \* events of a behaviour made of mouse events and comments
DelayTicks == 2       \* the debounce delay of 250 ms, counted in ticks
MaxInflight == 1      \* captureScreenshot calls awaiting their image
MaxClickEvents == 6   \* events of a behaviour made of clicks and comments
MaxKeyEvents == 3     \* events of a behaviour made of key events and comments
MaxStepEvents == 5    \* calls of a behaviour made of step, endStep and comment
MaxLabelEvents == 2   \* key events of a behaviour over every modifier combination
MaxGestureEvents == 7 \* events of a behaviour of clicks, double clicks and drags
MaxAreaEvents == 3    \* calls of a behaviour of screenshots with area selection
MaxAreaCalls == 2     \* captureScreenshot calls with area selection not yet completed

-----------------------------------------------------------------------------
(* Values *)

Undefined == "undefined"
Title == "codegen"    \* testInfo.title

Points == {<<1, 1>>, <<2, 3>>}
Deltas == {<<0, 0>>, <<1, 2>>}
Keys == {"a", "Shift"}
StepNames == {Undefined, "s"}
EVERY_STEP_NAME == StepNames \cup {""}
ShotNames == {Undefined, "a.png"}
Url == "u"
CommentText == "c"

NoMods == [altKey |-> FALSE, ctrlKey |-> FALSE, metaKey |-> FALSE, shiftKey |-> FALSE]
ShiftMod == [NoMods EXCEPT !.shiftKey = TRUE]
ModSets == {NoMods, ShiftMod}

\* every combination of the four modifier flags, and keys named like modifiers
ALL_MODIFIERS == [altKey : BOOLEAN, ctrlKey : BOOLEAN, metaKey : BOOLEAN, shiftKey : BOOLEAN]
LABEL_KEYS == {"a", "Alt", "Control", "Meta", "Shift"}

MouseEv(t, p) == [type |-> t, x |-> p[1], y |-> p[2]]
WheelEv(p, d) == [type |-> "wheel", x |-> p[1], y |-> p[2], deltaX |-> d[1], deltaY |-> d[2]]
KeyEv(t, k, m) == [type |-> t, key |-> k, altKey |-> m.altKey, ctrlKey |-> m.ctrlKey,
                   metaKey |-> m.metaKey, shiftKey |-> m.shiftKey]
StepStartEv(nm) == [type |-> "step", which |-> "start", name |-> nm]
StepEndEv == [type |-> "step", which |-> "end"]
CommentEv(v) == [type |-> "comment", value |-> v]
NavigationEv(u) == [type |-> "navigation", url |-> u]
ScreenshotEv(nm, clip) == [type |-> "screenshot", name |-> nm, clip |-> clip]

MOUSE_EVENTS ==
    {MouseEv(t, p) : t \in {"mousedown", "mousemove", "mouseup", "dblclick"}, p \in Points}
        \cup {WheelEv(p, d) : p \in Points, d \in Deltas}
KEYBOARD_EVENTS == {KeyEv(t, k, m) : t \in {"keydown", "keyup"}, k \in Keys, m \in ModSets}

-----------------------------------------------------------------------------
(* getCodegenKey: the key label *)

MODIFIER_ORDER == <<"altKey", "ctrlKey", "metaKey", "shiftKey">>

\* capitalize(key.replace("Key", ""))
capitalize(k) ==
    CASE k = "altKey" -> "Alt"
      [] k = "ctrlKey" -> "Ctrl"
      [] k = "metaKey" -> "Meta"
      [] k = "shiftKey" -> "Shift"

RECURSIVE join(_, _)
join(seq, sep) ==
    IF Len(seq) = 0 THEN ""
    ELSE IF Len(seq) = 1 THEN seq[1]
    ELSE seq[1] \o sep \o join(Tail(seq), sep)

getCodegenKeyKeepsAll(ev) ==
    LET mapped == [i \in 1..4 |-> IF ev[MODIFIER_ORDER[i]] THEN capitalize(MODIFIER_ORDER[i]) ELSE ""]
        kept(val) == val # ""
    IN join(Append(SelectSeq(mapped, kept), ev.key), "+")
getCodegenKey(ev) ==
    LET mapped == [i \in 1..4 |-> IF ev[MODIFIER_ORDER[i]] THEN capitalize(MODIFIER_ORDER[i]) ELSE ""]
        kept(val) == val # "" /\ val # ev.key
    IN join(Append(SelectSeq(mapped, kept), ev.key), "+")

-----------------------------------------------------------------------------
(* consume: the event normalizer *)

Truthy(s) == s # Undefined /\ s # ""

\* ev.name || "step"
nameKept(nm) == nm
nameOrDefault(nm) == IF Truthy(nm) THEN nm ELSE "step"

\* const { steps = 0 } = entry
stepsOf(entry) == IF "steps" \in DOMAIN entry THEN entry.steps ELSE 0

pop(seq) == SubSeq(seq, 1, Len(seq) - 1)

\* the mouse button state after the event (consume, first if-chain)
trackButton(ev, dn) ==
    IF ev.type = "mousedown" THEN TRUE
    ELSE IF ev.type = "mouseup" THEN FALSE
    ELSE dn

\* a mousemove outside a drag returns false before anything else happens
moveNeverFiltered(ev, dn) == FALSE
moveOutsideDrag(ev, dn) == ev.type = "mousemove" /\ ~dn

\* the step stack after the event (consume, second if-chain); steps.pop() on an
\* empty stack leaves it empty
trackStepsNoPop(ev, st) ==
    IF ev.type = "step" /\ ev.which = "start" THEN Append(st, nameOrDefault(ev.name))
    ELSE st
trackSteps(ev, st) ==
    IF ev.type = "step" /\ ev.which = "start" THEN Append(st, nameOrDefault(ev.name))
    ELSE IF ev.type = "step" /\ ev.which = "end" /\ Len(st) > 0 THEN pop(st)
    ELSE st

\* !this.steps.pop(): the popped name is undefined (empty stack) or falsy
unmatchedEndKept(ev, st) == FALSE
unmatchedEnd(ev, st) ==
    /\ ev.type = "step"
    /\ ev.which = "end"
    /\ ~Truthy(IF Len(st) > 0 THEN st[Len(st)] ELSE Undefined)

\* this.events[this.events.length - 1]?.type
lastOffByOne(evs) == IF Len(evs) >= 2 THEN evs[Len(evs) - 1].type ELSE Undefined
last(evs) == IF Len(evs) >= 1 THEN evs[Len(evs)].type ELSE Undefined

\* this.events[this.events.length - 2]?.type
beforeLast(evs) == IF Len(evs) >= 2 THEN evs[Len(evs) - 1].type ELSE Undefined

\* { ...ev, type: "mousemove", steps: steps + 1 }, steps read from the popped tail
moveRunKeepsSteps(ev, tail) ==
    [type |-> "mousemove", x |-> ev.x, y |-> ev.y, steps |-> stepsOf(tail)]
moveRun(ev, tail) ==
    [type |-> "mousemove", x |-> ev.x, y |-> ev.y, steps |-> stepsOf(tail) + 1]

\* ev.type === "mouseup" && last === "mousedown"
upAfterAny(ev, evs) == ev.type = "mouseup" /\ Len(evs) > 0
upAfterNone(ev, evs) == FALSE
upAfterDown(ev, evs) == ev.type = "mouseup" /\ last(evs) = "mousedown"

\* { ...ev, type: "click" }
clickKeepsUp(ev) == ev
clickOf(ev) == [ev EXCEPT !.type = "click"]

\* { ...ev, type: "keypress" }
keyPressKeepsUp(ev) == ev
keyPressOf(ev) == [ev EXCEPT !.type = "keypress"]

\* getCodegenKey(ev) === getCodegenKey(tail)
sameKey(ev, tail) == ev.key = tail.key
sameLabel(ev, tail) == getCodegenKey(ev) = getCodegenKey(tail)

\* last === "click" && beforeLast === "click"
oneClick(evs) == last(evs) = "click"
twoClicks(evs) == last(evs) = "click" /\ beforeLast(evs) = "click"

\* the log once both clicks are popped
popOne(evs) == pop(evs)
popThree(evs) == pop(pop(pop(evs)))
popBoth(evs) == pop(pop(evs))

\* { ...ev, deltaX: deltaX + ev.deltaX, deltaY: deltaY + ev.deltaY }
wheelLatest(ev, tail) == ev
wheelSum(ev, tail) ==
    [ev EXCEPT !.deltaX = tail.deltaX + ev.deltaX, !.deltaY = tail.deltaY + ev.deltaY]

\* the log after the merge-or-append decision (consume, third if-chain)
merge(ev, evs) ==
    LET len == Len(evs)
    IN IF ev.type = "mousemove" /\ last(evs) = "mousemove"
       THEN Append(pop(evs), moveRun(ev, evs[len]))
       ELSE IF upAfterDown(ev, evs)
       THEN Append(pop(evs), clickOf(ev))
       ELSE IF ev.type = "keyup" /\ last(evs) = "keydown" /\ sameLabel(ev, evs[len])
       THEN Append(pop(evs), keyPressOf(ev))
       ELSE IF ev.type = "dblclick" /\ twoClicks(evs)
       THEN Append(popBoth(evs), ev)
       ELSE IF ev.type = "wheel" /\ last(evs) = "wheel"
       THEN IF evs[len].x = ev.x /\ evs[len].y = ev.y
            THEN Append(pop(evs), wheelSum(ev, evs[len]))
            ELSE Append(evs, ev)
       ELSE Append(evs, ev)

\* consume(ev) on the state (evs, dn, st): the new state and the returned flag
consume(ev, evs, dn, st) ==
    IF moveOutsideDrag(ev, dn)
    THEN [events |-> evs, down |-> dn, steps |-> st, ret |-> FALSE]
    ELSE IF unmatchedEnd(ev, st)
    THEN [events |-> evs, down |-> trackButton(ev, dn), steps |-> trackSteps(ev, st),
          ret |-> FALSE]
    ELSE [events |-> merge(ev, evs), down |-> trackButton(ev, dn),
          steps |-> trackSteps(ev, st), ret |-> TRUE]

-----------------------------------------------------------------------------
(* parse and write: the script renderer *)

\* close open steps: new Array(this.steps.length).fill({type: "step", which: "end"})
closersNone(st) == <<>>
closers(st) == [i \in 1..Len(st) |-> StepEndEv]

stepOpenLine(nm) == "await test.step('" \o nameOrDefault(nm) \o "', async () => {"
stepCloseLine == "});"

\* JSON.stringify(options)
optionsJson(clip) == IF clip THEN "{\"clip\":{}}" ELSE "{}"

\* the lines of one entry (the switch of parse)
linesOf(ev) ==
    CASE ev.type = "keydown" -> <<"await page.keyboard.down('" \o getCodegenKey(ev) \o "');">>
      [] ev.type = "keyup" -> <<"await page.keyboard.up('" \o getCodegenKey(ev) \o "');">>
      [] ev.type = "keypress" -> <<"await page.keyboard.press('" \o getCodegenKey(ev) \o "');">>
      [] ev.type = "mousedown" ->
            <<"await page.mouse.move(" \o ToString(ev.x) \o ", " \o ToString(ev.y) \o ");",
              "await page.mouse.down();">>
      [] ev.type = "mousemove" ->
            <<"await page.mouse.move(" \o ToString(ev.x) \o ", " \o ToString(ev.y)
                \o ", { steps: " \o ToString(stepsOf(ev)) \o " });">>
      [] ev.type = "mouseup" -> <<"await page.mouse.up();">>
      [] ev.type = "click" ->
            <<"await page.mouse.click(" \o ToString(ev.x) \o ", " \o ToString(ev.y) \o ");">>
      [] ev.type = "dblclick" ->
            <<"await page.mouse.dblclick(" \o ToString(ev.x) \o ", " \o ToString(ev.y) \o ");">>
      [] ev.type = "wheel" ->
            <<"await page.mouse.move(" \o ToString(ev.x) \o ", " \o ToString(ev.y) \o ");",
              "await page.mouse.wheel(" \o ToString(ev.deltaX) \o ", " \o ToString(ev.deltaY) \o ");">>
      [] ev.type = "screenshot" ->
            <<"expect(" \o (IF ev.clip THEN "page" ELSE "await page.locator(selector)")
                \o ").toHaveScreenshot('" \o ev.name \o "', " \o optionsJson(ev.clip) \o ");">>
      [] ev.type = "step" ->
            IF ev.which = "start" THEN <<stepOpenLine(ev.name)>> ELSE <<stepCloseLine>>
      [] ev.type = "comment" -> <<"// " \o ev.value>>
      [] ev.type = "navigation" -> <<"await page.goto('" \o ev.url \o "');">>
      [] OTHER -> <<>>

RECURSIVE flatMapBackwards(_)
flatMapBackwards(data) ==
    IF Len(data) = 0 THEN <<>> ELSE flatMapBackwards(Tail(data)) \o linesOf(Head(data))
RECURSIVE flatMap(_)
flatMap(data) == IF Len(data) = 0 THEN <<>> ELSE linesOf(Head(data)) \o flatMap(Tail(data))

parse(evs, st) == flatMap(evs \o closers(st))

HEADER ==
    <<"import { test, expect } from \"@playwright/test\";",
      "",
      "// This file is readonly and gets written frequently",
      "",
      "test('codegen output', async ({ page }, testInfo) => {",
      "",
      "// you may need to replace the `selector` value",
      "const selector = '#canvas';",
      "",
      "">>

\* the lines write() hands to writeFileSync
script(evs, st) == HEADER \o parse(evs, st) \o <<"});">>

-----------------------------------------------------------------------------
(* The session *)

Init ==
    /\ events = <<>>
    /\ recording = FALSE
    /\ down = FALSE
    /\ steps = <<>>
    /\ counter = 0
    /\ timerId = FALSE
    /\ sinceCall = 0
    /\ file = <<>>
    /\ formatted = FALSE
    /\ snapshots = {}
    /\ inflight = <<>>
    /\ outcome = "none"
    /\ quiet = 0
    /\ burst = 0
    /\ run = 0
    /\ lastMove = <<0, 0>>
    /\ n = 0

Min(a, b) == IF a < b THEN a ELSE b

\* a call of debounce(() => this.write(), 250): the trailing-edge timer is
\* (re)armed, the delay counts from this call, nothing is written yet
debouncedCancels(tid, since) == [timerId |-> ~tid, sinceCall |-> 0]
debouncedNoRearm(tid, since) == [timerId |-> TRUE, sinceCall |-> IF tid THEN since ELSE 0]
debounced(tid, since) == [timerId |-> TRUE, sinceCall |-> 0]

\* this.consume(ev) && write(): the write is requested when consume returns true
requestsAlways(ret) == TRUE
requestsNever(ret) == FALSE
requests(ret) == ret

\* exec: the listener of every consumed event type
exec(ev) ==
    LET r == consume(ev, events, down, steps)
        d == debounced(timerId, sinceCall)
        move == r.ret /\ ev.type = "mousemove"
    IN /\ events' = r.events
       /\ down' = r.down
       /\ steps' = r.steps
       /\ timerId' = IF requests(r.ret) THEN d.timerId ELSE timerId
       /\ sinceCall' = IF requests(r.ret) THEN d.sinceCall ELSE sinceCall
       /\ burst' = IF requests(r.ret) THEN burst + 1 ELSE burst
       /\ outcome' = IF r.ret THEN "accepted" ELSE "discarded"
       /\ quiet' = IF r.ret THEN 0 ELSE quiet
       /\ run' = IF move THEN run + 1 ELSE IF r.ret THEN 0 ELSE run
       /\ lastMove' = IF move THEN <<ev.x, ev.y>> ELSE IF r.ret THEN <<0, 0>> ELSE lastMove

\* an event or call that changes nothing but the record of what became of it
dropped(what) ==
    /\ outcome' = what
    /\ UNCHANGED <<events, down, steps, timerId, sinceCall, quiet, burst, run, lastMove>>

\* emitCodegenEvent: this.recording && this.emit(e.type, e)
emitUngated(e) == exec(e)
emitCodegenEvent(e) == IF recording THEN exec(e) ELSE dropped("gated")

\* consumeMouseEvent: a mouse or wheel event shipped by the window listeners
mouseEvent(limit) ==
    /\ n < limit
    /\ \E e \in MOUSE_EVENTS : emitCodegenEvent(e)
    /\ n' = n + 1
    /\ UNCHANGED <<recording, counter, file, formatted, snapshots, inflight>>

MouseEvent == mouseEvent(MaxEvents)

\* consumeKeyboardEvent: a key event shipped by the window listeners
KeyboardEvent ==
    /\ n < MaxEvents
    /\ \E e \in KEYBOARD_EVENTS : emitCodegenEvent(e)
    /\ n' = n + 1
    /\ UNCHANGED <<recording, counter, file, formatted, snapshots, inflight>>

\* this.emit("navigation", ...), with no look at the recording flag
emitNavigationGated(e) == IF recording THEN exec(e) ELSE dropped("gated")
emitNavigation(e) == exec(e)

\* page.on("framenavigated"): emitted whatever the recording flag is
FrameNavigated ==
    /\ n < MaxEvents
    /\ emitNavigation(NavigationEv(Url))
    /\ n' = n + 1
    /\ UNCHANGED <<recording, counter, file, formatted, snapshots, inflight>>

StartRecording ==
    /\ recording' = TRUE
    /\ UNCHANGED <<events, down, steps, counter, timerId, sinceCall, file, formatted,
                   snapshots, inflight, outcome, quiet, burst, run, lastMove, n>>

StopRecordingResets ==
    /\ recording' = FALSE
    /\ down' = FALSE
    /\ timerId' = FALSE
    /\ UNCHANGED <<events, steps, counter, sinceCall, file, formatted,
                   snapshots, inflight, outcome, quiet, burst, run, lastMove, n>>
StopRecording ==
    /\ recording' = FALSE
    /\ UNCHANGED <<events, down, steps, counter, timerId, sinceCall, file, formatted,
                   snapshots, inflight, outcome, quiet, burst, run, lastMove, n>>

\* assertRecording throws
neverThrows(rec) == FALSE
notRecording(rec) == ~rec

\* an API call that emits its event at once: assertRecording(), then this.emit
apiCall(ev) == IF notRecording(recording) THEN dropped("thrown") ELSE exec(ev)

Step ==
    /\ n < MaxEvents
    /\ \E nm \in StepNames : apiCall(StepStartEv(nm))
    /\ n' = n + 1
    /\ UNCHANGED <<recording, counter, file, formatted, snapshots, inflight>>

EndStep ==
    /\ n < MaxEvents
    /\ apiCall(StepEndEv)
    /\ n' = n + 1
    /\ UNCHANGED <<recording, counter, file, formatted, snapshots, inflight>>

comment(limit) ==
    /\ n < limit
    /\ apiCall(CommentEv(CommentText))
    /\ n' = n + 1
    /\ UNCHANGED <<recording, counter, file, formatted, snapshots, inflight>>

Comment == comment(MaxEvents)

\* name = `${this.testInfo.title}-${++this.counter}.png`
autoName(c) == Title \o "-" \o ToString(c + 1) \o ".png"

\* captureScreenshot up to its first await: the default name is evaluated
\* before assertRecording runs
CaptureScreenshotAtOnce ==
    /\ n < MaxEvents
    /\ Len(inflight) < MaxInflight
    /\ \E nm \in ShotNames, clip \in BOOLEAN :
        /\ counter' = IF nm = Undefined THEN counter + 1 ELSE counter
        /\ IF notRecording(recording)
           THEN dropped("thrown")
           ELSE exec(ScreenshotEv(IF nm = Undefined THEN autoName(counter) ELSE nm, clip))
    /\ n' = n + 1
    /\ UNCHANGED <<recording, file, formatted, snapshots, inflight>>
CaptureScreenshot ==
    /\ n < MaxEvents
    /\ Len(inflight) < MaxInflight
    /\ \E nm \in ShotNames, clip \in BOOLEAN :
        /\ counter' = IF nm = Undefined THEN counter + 1 ELSE counter
        /\ IF notRecording(recording)
           THEN /\ dropped("thrown")
                /\ UNCHANGED inflight
           ELSE /\ dropped("called")
                /\ inflight' = Append(inflight,
                        [name |-> IF nm = Undefined THEN autoName(counter) ELSE nm,
                         clip |-> clip, stage |-> "image"])
    /\ n' = n + 1
    /\ UNCHANGED <<recording, file, formatted, snapshots>>

remove(seq, i) == SubSeq(seq, 1, i - 1) \o SubSeq(seq, i + 1, Len(seq))

\* the snapshot files once the second "screenshot" listener has run
notPersisted(snaps, name) == snaps
persisted(snaps, name) == snaps \cup {name}

\* the image has been taken: this.emit("screenshot", ...) runs exec and then the
\* listener that persists the snapshot
ScreenshotTaken ==
    /\ \E i \in 1..Len(inflight) :
        /\ inflight[i].stage = "image"
        /\ exec(ScreenshotEv(inflight[i].name, inflight[i].clip))
        /\ snapshots' = persisted(snapshots, inflight[i].name)
        /\ inflight' = remove(inflight, i)
    /\ UNCHANGED <<recording, counter, file, formatted, n>>

\* this.captureScreenshotArea = resolve: the one slot takes the resolver of the
\* newest call, and the call whose resolver it held can no longer be resolved
overwritten(calls) ==
    [i \in 1..Len(calls) |->
        IF calls[i].stage = "area" THEN [calls[i] EXCEPT !.stage = "lost"] ELSE calls[i]]

\* captureScreenshot with captureScreenshotArea set, up to the promise that
\* waits for the area: the listeners are installed and the resolver stored
CaptureScreenshotArea ==
    /\ n < MaxAreaEvents
    /\ Len(inflight) < MaxAreaCalls
    /\ \E nm \in ShotNames :
        /\ counter' = IF nm = Undefined THEN counter + 1 ELSE counter
        /\ IF notRecording(recording)
           THEN /\ dropped("thrown")
                /\ UNCHANGED inflight
           ELSE /\ dropped("called")
                /\ inflight' = Append(overwritten(inflight),
                        [name |-> IF nm = Undefined THEN autoName(counter) ELSE nm,
                         clip |-> TRUE, stage |-> "area"])
    /\ n' = n + 1
    /\ UNCHANGED <<recording, file, formatted, snapshots>>

\* the user drags an area: this.captureScreenshotArea?.(bbox) resolves the call
\* whose resolver is in the slot, which goes on to take the image
AreaSelected ==
    /\ \E i \in 1..Len(inflight) :
        /\ inflight[i].stage = "area"
        /\ inflight' = [inflight EXCEPT ![i].stage = "image"]
    /\ UNCHANGED <<events, recording, down, steps, counter, timerId, sinceCall, file,
                   formatted, snapshots, outcome, quiet, burst, run, lastMove, n>>

\* time passes while the debounce timer runs
Tick ==
    /\ timerId
    /\ sinceCall < DelayTicks
    /\ sinceCall' = sinceCall + 1
    /\ quiet' = Min(quiet + 1, DelayTicks)
    /\ UNCHANGED <<events, recording, down, steps, counter, timerId, file, formatted,
                   snapshots, inflight, outcome, burst, run, lastMove, n>>

\* this.events once parse has run: concat returns a new array, the closers are
\* not pushed on the log
parsePushesClosers(evs, st) == evs \o closers(st)
afterParse(evs, st) == evs

\* the debounce timer expires DelayTicks after the last call: write(), then the
\* formatting pass, whose failure is swallowed
Write ==
    /\ timerId
    /\ sinceCall = DelayTicks
    /\ file' = script(events, steps)
    /\ events' = afterParse(events, steps)
    /\ formatted' \in BOOLEAN
    /\ timerId' = FALSE
    /\ burst' = 0
    /\ UNCHANGED <<recording, down, steps, counter, sinceCall, snapshots,
                   inflight, outcome, quiet, run, lastMove, n>>

Next ==
    \/ MouseEvent
    \/ KeyboardEvent
    \/ FrameNavigated
    \/ StartRecording
    \/ StopRecording
    \/ Step
    \/ EndStep
    \/ Comment
    \/ CaptureScreenshot
    \/ ScreenshotTaken
    \/ Tick
    \/ Write

Spec == Init /\ [][Next]_vars

\* the session without the window listeners, the debounce timer running and firing
TimerNext ==
    \/ FrameNavigated
    \/ StartRecording
    \/ StopRecording
    \/ Step
    \/ EndStep
    \/ Comment
    \/ CaptureScreenshot
    \/ ScreenshotTaken
    \/ Tick
    \/ Write

TimerSpec == Init /\ [][TimerNext]_vars /\ WF_vars(Tick) /\ WF_vars(Write)

\* the debounce timer expires and writeFileSync throws: write() has no handler
\* around it, the exception leaves the timer callback; the timer was cleared
\* before the call and the file keeps what it held
WriteFails ==
    /\ timerId
    /\ sinceCall = DelayTicks
    /\ timerId' = FALSE
    /\ burst' = 0
    /\ outcome' = "uncaught"
    /\ UNCHANGED <<events, recording, down, steps, counter, sinceCall, file, formatted,
                   snapshots, inflight, quiet, run, lastMove, n>>

\* the session on a file system whose writes can fail
FaultNext ==
    \/ FrameNavigated
    \/ StartRecording
    \/ StopRecording
    \/ Step
    \/ EndStep
    \/ Comment
    \/ CaptureScreenshot
    \/ ScreenshotTaken
    \/ Tick
    \/ Write
    \/ WriteFails

FaultSpec == Init /\ [][FaultNext]_vars

\* a longer session of mouse events and comments, the timer left aside
DragMouseEvent == mouseEvent(MaxDragEvents)
DragComment == comment(MaxDragEvents)

DragNext ==
    \/ DragMouseEvent
    \/ DragComment
    \/ StartRecording
    \/ StopRecording

DragSpec == Init /\ [][DragNext]_vars

\* window events drawn from a given set
windowEvent(set, limit) ==
    /\ n < limit
    /\ \E e \in set : emitCodegenEvent(e)
    /\ n' = n + 1
    /\ UNCHANGED <<recording, counter, file, formatted, snapshots, inflight>>

\* a session of presses, releases and double clicks, with comments between
CLICK_EVENTS == {MouseEv(t, p) : t \in {"mousedown", "mouseup", "dblclick"}, p \in Points}
ClickMouseEvent == windowEvent(CLICK_EVENTS, MaxClickEvents)
ClickComment == comment(MaxClickEvents)

ClickNext ==
    \/ ClickMouseEvent
    \/ ClickComment
    \/ StartRecording
    \/ StopRecording

ClickSpec == Init /\ [][ClickNext]_vars

\* a session of key events, with comments between
KeyKeyboardEvent == windowEvent(KEYBOARD_EVENTS, MaxKeyEvents)
KeyComment == comment(MaxKeyEvents)

KeyNext ==
    \/ KeyKeyboardEvent
    \/ KeyComment
    \/ StartRecording
    \/ StopRecording

KeySpec == Init /\ [][KeyNext]_vars

\* a session of screenshots with area selection; every area the user can drag
\* is dragged and every image that can be taken is taken
AreaComment == comment(MaxAreaEvents)

AreaNext ==
    \/ CaptureScreenshotArea
    \/ AreaSelected
    \/ ScreenshotTaken
    \/ AreaComment
    \/ StartRecording
    \/ StopRecording

AreaSpec == Init /\ [][AreaNext]_vars /\ WF_vars(AreaSelected) /\ WF_vars(ScreenshotTaken)

\* a long session of presses, moves, releases and double clicks at one point
GESTURE_EVENTS ==
    {MouseEv(t, <<1, 1>>) : t \in {"mousedown", "mousemove", "mouseup", "dblclick"}}
GestureMouseEvent == windowEvent(GESTURE_EVENTS, MaxGestureEvents)

GestureNext ==
    \/ GestureMouseEvent
    \/ StartRecording
    \/ StopRecording

GestureSpec == Init /\ [][GestureNext]_vars

\* a session of key events under every modifier combination
LABEL_EVENTS == {KeyEv(t, k, m) : t \in {"keydown", "keyup"}, k \in LABEL_KEYS, m \in ALL_MODIFIERS}
LabelKeyboardEvent == windowEvent(LABEL_EVENTS, MaxLabelEvents)

LabelNext ==
    \/ LabelKeyboardEvent
    \/ StartRecording
    \/ StopRecording

LabelSpec == Init /\ [][LabelNext]_vars

\* a session of step, endStep and comment calls
apiStep(limit) ==
    /\ n < limit
    /\ \E nm \in EVERY_STEP_NAME : apiCall(StepStartEv(nm))
    /\ n' = n + 1
    /\ UNCHANGED <<recording, counter, file, formatted, snapshots, inflight>>

apiEndStep(limit) ==
    /\ n < limit
    /\ apiCall(StepEndEv)
    /\ n' = n + 1
    /\ UNCHANGED <<recording, counter, file, formatted, snapshots, inflight>>

StepsStep == apiStep(MaxStepEvents)
StepsEndStep == apiEndStep(MaxStepEvents)
StepsComment == comment(MaxStepEvents)

StepsNext ==
    \/ StepsStep
    \/ StepsEndStep
    \/ StepsComment
    \/ StartRecording
    \/ StopRecording

StepsSpec == Init /\ [][StepsNext]_vars

\* the event e is delivered by the window listeners in this step
delivered(e) == emitCodegenEvent(e) /\ n' = n + 1

-----------------------------------------------------------------------------
(* Properties of the session *)

isStepOpen(line) == \E nm \in StepNames : line = stepOpenLine(nm)
isStepClose(line) == line = stepCloseLine
opensIn(lines, k) == Cardinality({i \in 1..k : isStepOpen(lines[i])})
closesIn(lines, k) == Cardinality({i \in 1..k : isStepClose(lines[i])})

\* no prefix closes more step blocks than it opened, and all are closed at the end
balanced(lines) ==
    /\ \A k \in 0..Len(lines) : opensIn(lines, k) >= closesIn(lines, k)
    /\ opensIn(lines, Len(lines)) = closesIn(lines, Len(lines))

sessionState == <<events, steps, down, timerId, sinceCall>>

\* C1 (as stated): whatever raw event arrives while recording is false, be it a
\* mouse, wheel, key, screenshot, step, comment or navigation event, the log, the
\* open steps and the button state stay as they are and no write is scheduled.
C1_EveryKindGated ==
    [][(~recording /\ (MouseEvent \/ KeyboardEvent \/ FrameNavigated \/ ScreenshotTaken
                        \/ Step \/ EndStep \/ Comment))
        => UNCHANGED sessionState]_vars

\* C1 (amended): a mouse, wheel or key event that arrives while recording is false
\* is discarded: log, open steps and button state are unchanged and no write is
\* scheduled; and no step or comment event is emitted while recording is false.
C1_WindowEventsGated ==
    [][(~recording /\ (MouseEvent \/ KeyboardEvent \/ Step \/ EndStep \/ Comment))
        => UNCHANGED sessionState]_vars

\* a key or mouse event was gated during a drag with a write pending
C1_Witness == outcome = "gated" /\ ~recording /\ down /\ timerId /\ Len(events) >= 2

\* C2: step, endStep, captureScreenshot and comment called while recording is false
\* throw, append nothing to the log, leave the open steps alone, schedule no write
\* and begin no capture.
C2_ApiCallsThrow ==
    [][(~recording /\ (Step \/ EndStep \/ Comment \/ CaptureScreenshot))
        => (outcome' = "thrown" /\ UNCHANGED <<sessionState, inflight>>)]_vars

\* a call was rejected after a step had been opened and recording stopped
C2_Witness == outcome = "thrown" /\ ~recording /\ Len(steps) >= 1 /\ Len(events) >= 1

\* C3: the rendered lines are balanced, every prefix holding at least as many
\* step-open as step-close lines and the totals being equal, and the render is
\* that of the log alone followed by one closing line per open step.
C3_StepBalance ==
    /\ balanced(parse(events, steps))
    /\ parse(events, steps) = parse(events, <<>>) \o [i \in 1..Len(steps) |-> stepCloseLine]

\* a step is open while the log holds a closed one
C3_Witness ==
    /\ Len(steps) >= 1
    /\ \E i \in 1..Len(events) : events[i].type = "step" /\ events[i].which = "end"

\* the lines of the file between the fixed header and the closing line of the test
body(f) == SubSeq(f, Len(HEADER) + 1, Len(f) - 1)

\* C4: every script written to the file, at whatever debounce cycle, is the header,
\* a body with balanced step nesting, and the line that closes the test.
C4_FileBalanced ==
    file # <<>> =>
        /\ SubSeq(file, 1, Len(HEADER)) = HEADER
        /\ file[Len(file)] = "});"
        /\ balanced(body(file))

\* a script was written mid-session with a step still open, and more is pending
C4_Witness ==
    /\ timerId
    /\ \E i \in 1..Len(file) : isStepOpen(file[i])
    /\ Len(steps) >= 1

\* C5 (as stated): stopping the session while a debounced write is pending forces
\* the render and write of all accepted events as part of the stop, leaving no
\* write pending.
C5_StopFlushes ==
    [][(recording /\ ~recording' /\ timerId)
        => (~timerId' /\ file' = script(events, steps))]_vars

\* the file shows the session exactly: nothing is pending and what was written is
\* the render of the log and open steps as they are
upToDate == ~timerId /\ file = script(events, steps)

\* C6: once a write is pending, and the timer running and firing, a write occurs
\* after which the file is the render of the log and the open steps as they are;
\* and whenever nothing is pending the file, once written, is that render.
C6_LastWriteCurrent ==
    /\ [](~timerId /\ file # <<>> => file = script(events, steps))
    /\ (timerId ~> upToDate)

\* a write happened after two accepted events and a step left open
C6_Witness == upToDate /\ Len(events) >= 2 /\ Len(steps) >= 1

\* C7: a write happens only when DelayTicks have passed since the last accepted
\* event, it covers at least one accepted event (no second write is queued for the
\* same burst), and every accepted event not yet written has the one timer pending.
C7_TrailingEdge ==
    [][/\ (Write => (quiet = DelayTicks /\ burst >= 1))
       /\ (burst' > 0 => timerId')]_vars

\* three accepted events share one pending write, due now
C7_Witness == timerId /\ burst >= 3 /\ quiet = DelayTicks /\ sinceCall = DelayTicks

requested == burst' = burst + 1

\* C8 (as stated): an event requests a write if and only if it changed the log or
\* the step stack.
C8_RequestIffMutated ==
    [][requested <=> (events' # events \/ steps' # steps)]_vars

\* C8 (amended): an event requests a write if and only if consume accepted it; a
\* discarded event leaves log, steps, button state and timer alone; every change
\* of the log or the steps comes with a request; and an accepted event changes the
\* log or the steps unless it is a wheel event merged into an equal tail.
C8_RequestIffAccepted ==
    [][/\ (requested <=> (outcome' = "accepted" /\ (n' # n \/ inflight' # inflight)))
       /\ ((outcome' = "discarded" /\ n' # n) => UNCHANGED sessionState)
       /\ ((events' # events \/ steps' # steps) => requested)
       /\ ((requested /\ events' = events /\ steps' = steps)
            => (last(events) = "wheel" /\ outcome' = "accepted"))]_vars

\* a mousemove with the button up, or an unmatched endStep, was discarded while a
\* write was pending
C8_Witness == outcome = "discarded" /\ timerId /\ steps = <<>> /\ Len(events) >= 1 /\ ~down

\* C9: after N >= 1 accepted mousemoves in a row the tail of the log is the one
\* mousemove entry of the run, at the point of the last move, with steps N - 1;
\* and outside such a run the tail is no mousemove entry.
C9_MoveCoalescing ==
    LET len == Len(events)
    IN IF run >= 1
       THEN /\ last(events) = "mousemove"
            /\ stepsOf(events[len]) = run - 1
            /\ <<events[len].x, events[len].y>> = lastMove
            /\ beforeLast(events) # "mousemove"
       ELSE last(events) # "mousemove"

\* three moves of a drag made one entry
C9_Witness == run = 3 /\ Len(events) = 2 /\ events[1].type = "mousedown"

\* C10: the log never holds two mousemove entries next to each other.
C10_NoAdjacentRuns ==
    \A i \in 1..(Len(events) - 1) :
        ~(events[i].type = "mousemove" /\ events[i + 1].type = "mousemove")

\* a run of merged moves is followed by another entry
C10_Witness ==
    \E i \in 1..(Len(events) - 1) : events[i].type = "mousemove" /\ stepsOf(events[i]) >= 1

\* the log up to, and without, its last k entries
front(evs, k) == SubSeq(evs, 1, Len(evs) - k)

\* C11: a mousemove delivered while no button is down leaves the log and the
\* button flag as they were, whatever the tail of the log is, a merged run of
\* moves included.
C11_DragFilter ==
    [][/\ \A p \in Points :
              (~down /\ delivered(MouseEv("mousemove", p))) => UNCHANGED <<events, down>>
       /\ \A p, q \in Points :
              LET tail == <<moveRun(MouseEv("mousemove", q), MouseEv("mousemove", q))>>
                  r == consume(MouseEv("mousemove", p), tail, FALSE, <<>>)
              IN ~r.ret /\ r.events = tail /\ ~r.down]_vars

\* a move was discarded after a press and a release were logged
C11_Witness == outcome = "discarded" /\ recording /\ ~down /\ Len(events) >= 1

\* C12: a mouseup delivered when the tail of the log is a mousedown replaces that
\* tail by one click entry; the entries before it and the length stay the same.
C12_ClickCollapse ==
    [][\A p \in Points :
           (recording /\ last(events) = "mousedown" /\ delivered(MouseEv("mouseup", p)))
               => /\ Len(events') = Len(events)
                  /\ front(events', 1) = front(events, 1)
                  /\ events'[Len(events')].type = "click"]_vars

\* a comment, then a press and a release that made one click
C12_Witness == Len(events) = 2 /\ events[1].type = "comment" /\ events[2].type = "click"

\* C13: the click that replaces a tail mousedown is at the point of the mousedown.
C13_ClickAtDown ==
    [][\A p \in Points :
           (recording /\ last(events) = "mousedown" /\ delivered(MouseEv("mouseup", p)))
               => /\ events'[Len(events')].x = events[Len(events)].x
                  /\ events'[Len(events')].y = events[Len(events)].y]_vars

\* C14: a dblclick delivered when the last two entries are clicks replaces both
\* by one dblclick entry at the point of the dblclick; the log is one shorter
\* and the entries before the two clicks stay the same.
C14_DoubleClickCollapse ==
    [][\A p \in Points :
           LET len == Len(events)
           IN (/\ recording
               /\ len >= 2
               /\ events[len].type = "click"
               /\ events[len - 1].type = "click"
               /\ delivered(MouseEv("dblclick", p)))
                  => /\ Len(events') = len - 1
                     /\ front(events', 1) = front(events, 2)
                     /\ events'[len - 1] = MouseEv("dblclick", p)]_vars

\* five accepted events made one dblclick entry
C14_Witness == burst = 5 /\ Len(events) = 1 /\ events[1].type = "dblclick"

\* C15: a dblclick delivered when the last two entries are not both clicks is
\* appended and every entry of the log stays.
C15_DoubleClickBoundary ==
    [][\A p \in Points :
           LET len == Len(events)
               both == len >= 2 /\ events[len].type = "click" /\ events[len - 1].type = "click"
           IN (recording /\ ~both /\ delivered(MouseEv("dblclick", p)))
                  => events' = Append(events, MouseEv("dblclick", p))]_vars

\* a comment between two clicks, and the dblclick appended after them
C15_Witness ==
    /\ Len(events) = 4
    /\ events[1].type = "click"
    /\ events[2].type = "comment"
    /\ events[3].type = "click"
    /\ events[4].type = "dblclick"

\* C16: a keyup whose label equals the label of a tail keydown replaces that
\* tail by one keypress entry with that label; the length stays the same.
C16_KeyPressMerge ==
    [][\A k \in Keys, m \in ModSets :
           LET e == KeyEv("keyup", k, m)
               len == Len(events)
           IN (/\ recording
               /\ last(events) = "keydown"
               /\ getCodegenKey(e) = getCodegenKey(events[len])
               /\ delivered(e))
                  => /\ Len(events') = len
                     /\ front(events', 1) = front(events, 1)
                     /\ events'[len].type = "keypress"
                     /\ getCodegenKey(events'[len]) = getCodegenKey(events[len])]_vars

\* a comment, then a key pressed and released
C16_Witness == Len(events) = 2 /\ events[1].type = "comment" /\ events[2].type = "keypress"

\* C17: a keyup whose label differs from the label of a tail keydown, or whose
\* tail is no keydown, is appended as a keyup entry and the tail stays.
C17_KeyUpAppended ==
    [][\A k \in Keys, m \in ModSets :
           LET e == KeyEv("keyup", k, m)
               len == Len(events)
               same == last(events) = "keydown" /\ getCodegenKey(e) = getCodegenKey(events[len])
           IN (recording /\ ~same /\ delivered(e)) => events' = Append(events, e)]_vars

\* the same key pressed and released under different modifiers
C17_Witness ==
    \E i \in 1..(Len(events) - 1) :
        /\ events[i].type = "keydown"
        /\ events[i + 1].type = "keyup"
        /\ events[i].key = events[i + 1].key
        /\ events[i].shiftKey # events[i + 1].shiftKey

\* C18: a wheel event delivered when the tail is a wheel entry at the same point
\* replaces the tail by one wheel entry at that point with the deltas summed;
\* at another point, or after another tail, it is appended.
C18_WheelAccumulation ==
    [][\A p \in Points, d \in Deltas :
           LET e == WheelEv(p, d)
               len == Len(events)
               here == /\ last(events) = "wheel"
                       /\ events[len].x = p[1]
                       /\ events[len].y = p[2]
           IN (recording /\ delivered(e))
                  => IF here
                     THEN /\ Len(events') = len
                          /\ front(events', 1) = front(events, 1)
                          /\ events'[len] = WheelEv(p, <<events[len].deltaX + d[1],
                                                         events[len].deltaY + d[2]>>)
                     ELSE events' = Append(events, e)]_vars

\* two wheel events at one point were summed and a third at another point appended
C18_Witness ==
    /\ Len(events) = 2
    /\ events[1] = WheelEv(<<1, 1>>, <<2, 4>>)
    /\ events[2].type = "wheel"
    /\ events[2].x = 2

\* the step boundaries among the first k entries of the log
startsIn(evs, k) == Cardinality({i \in 1..k : evs[i].type = "step" /\ evs[i].which = "start"})
endsIn(evs, k) == Cardinality({i \in 1..k : evs[i].type = "step" /\ evs[i].which = "end"})

\* C19: the step stack is as long as the starts of the log minus its ends, and
\* no prefix of the log holds more ends than starts.
C19_StackMatchesLog ==
    /\ Len(steps) = startsIn(events, Len(events)) - endsIn(events, Len(events))
    /\ \A k \in 0..Len(events) : endsIn(events, k) <= startsIn(events, k)

\* one step closed and another still open
C19_Witness ==
    /\ Len(steps) = 1
    /\ startsIn(events, Len(events)) = 2
    /\ endsIn(events, Len(events)) = 1

\* C20: endStep called while recording with an empty step stack changes neither
\* the log nor the stack, raises nothing and requests no write; step and endStep
\* calls with the stack as they need it are logged and tracked.
C20_UnmatchedEndNoOp ==
    [][/\ (recording /\ steps = <<>> /\ apiCall(StepEndEv) /\ n' = n + 1)
              => (outcome' = "discarded" /\ UNCHANGED <<events, steps, timerId, sinceCall, burst>>)
       /\ \A nm \in StepNames :
              (recording /\ apiCall(StepStartEv(nm)) /\ n' = n + 1)
                  => /\ outcome' = "accepted"
                     /\ events' = Append(events, StepStartEv(nm))
                     /\ steps' = Append(steps, nameOrDefault(nm))
       /\ (recording /\ steps # <<>> /\ apiCall(StepEndEv) /\ n' = n + 1)
              => /\ outcome' = "accepted"
                 /\ events' = Append(events, StepEndEv)
                 /\ steps' = front(steps, 1)]_vars

\* a step was opened and closed, and an endStep after it was discarded
C20_Witness ==
    /\ outcome = "discarded"
    /\ recording
    /\ steps = <<>>
    /\ Len(events) = 2
    /\ events[1] = StepStartEv("s")
    /\ events[2] = StepEndEv

\* the label spelled out: each modifier that is set and is not named like the
\* key, in the order alt, ctrl, meta, shift, then the key
labelOf(k, m) ==
    (IF m.altKey /\ k # "Alt" THEN "Alt+" ELSE "")
        \o (IF m.ctrlKey /\ k # "Ctrl" THEN "Ctrl+" ELSE "")
        \o (IF m.metaKey /\ k # "Meta" THEN "Meta+" ELSE "")
        \o (IF m.shiftKey /\ k # "Shift" THEN "Shift+" ELSE "")
        \o k

\* C21: the label of every key entry of the log is the capitalized names of its
\* modifiers in the order alt, ctrl, meta, shift, without a name equal to the key,
\* then the key, joined with '+'; its line in the script carries that label.
C21_KeyLabel ==
    \A i \in 1..Len(events) :
        LET e == events[i]
            verb == CASE e.type = "keydown" -> "down"
                      [] e.type = "keyup" -> "up"
                      [] OTHER -> "press"
        IN e.type \in {"keydown", "keyup", "keypress"}
               => /\ getCodegenKey(e) = labelOf(e.key, e)
                  /\ linesOf(e) = <<"await page.keyboard." \o verb \o "('" \o labelOf(e.key, e) \o "');">>

\* Shift pressed alone, and Control under all four modifiers
C21_Witness ==
    /\ Len(events) = 2
    /\ events[1].key = "Shift" /\ events[1].shiftKey /\ getCodegenKey(events[1]) = "Shift"
    /\ events[2].key = "Control"
    /\ getCodegenKey(events[2]) = "Alt+Ctrl+Meta+Shift+Control"

width(e) == IF e.type \in {"mousedown", "wheel"} THEN 2 ELSE 1
RECURSIVE offset(_, _)
offset(evs, i) == IF i <= 1 THEN 0 ELSE offset(evs, i - 1) + width(evs[i - 1])

moveTo(e) == "await page.mouse.move(" \o ToString(e.x) \o ", " \o ToString(e.y) \o ");"

\* C23: the render of the log holds the lines of every entry, in the order of
\* the log and with nothing between them: two lines for a mousedown (move-to,
\* button-down) and for a wheel (move-to, wheel), one line for any other entry,
\* and one closing line more for each open step.
C23_RenderTotalOrdered ==
    LET lines == parse(events, <<>>)
    IN /\ Len(lines) = offset(events, Len(events) + 1)
       /\ Len(parse(events, steps)) = Len(lines) + Len(steps)
       /\ \A i \in 1..Len(events) :
              LET e == events[i]
                  at == offset(events, i)
              IN /\ Len(linesOf(e)) = width(e)
                 /\ SubSeq(lines, at + 1, at + width(e)) = linesOf(e)
                 /\ e.type = "mousedown"
                        => linesOf(e) = <<moveTo(e), "await page.mouse.down();">>
                 /\ e.type = "wheel"
                        => /\ lines[at + 1] = moveTo(e)
                           /\ lines[at + 2] = "await page.mouse.wheel(" \o ToString(e.deltaX)
                                                  \o ", " \o ToString(e.deltaY) \o ");"

\* a mousedown, a wheel and a comment rendered as five lines
C23_Witness ==
    /\ Len(events) = 3
    /\ events[1].type = "mousedown"
    /\ events[2].type = "wheel"
    /\ events[3].type = "comment"
    /\ Len(parse(events, steps)) = 5

\* C24: a mouseup delivered when the tail is no mousedown is appended and
\* removes nothing; after a mousedown and k >= 1 moves of the drag the log then
\* ends with the mousedown, the one entry of the moves (at the last point, with
\* steps k - 1) and the mouseup, rendered as move-to, button-down, move-to with
\* steps and button-up in that order. A mousedown is appended as it is delivered.
C24_DragSequence ==
    [][\A p \in Points :
          LET len == Len(events)
          IN /\ (recording /\ delivered(MouseEv("mousedown", p)))
                    => events' = Append(events, MouseEv("mousedown", p))
             /\ (recording /\ last(events) # "mousedown" /\ delivered(MouseEv("mouseup", p)))
                    => /\ events' = Append(events, MouseEv("mouseup", p))
                       /\ (run >= 1 /\ beforeLast(events) = "mousedown")
                              => LET d == events[len - 1]
                                 IN /\ events'[len].type = "mousemove"
                                    /\ <<events'[len].x, events'[len].y>> = lastMove
                                    /\ stepsOf(events'[len]) = run - 1
                                    /\ parse(SubSeq(events', len - 1, len + 1), <<>>) =
                                         <<"await page.mouse.move(" \o ToString(d.x) \o ", "
                                               \o ToString(d.y) \o ");",
                                           "await page.mouse.down();",
                                           "await page.mouse.move(" \o ToString(lastMove[1])
                                               \o ", " \o ToString(lastMove[2])
                                               \o ", { steps: " \o ToString(run - 1) \o " });",
                                           "await page.mouse.up();">>]_vars

\* a press, two moves of the drag and the release made three entries
C24_Witness ==
    /\ Len(events) = 3
    /\ events[1].type = "mousedown"
    /\ events[2].type = "mousemove" /\ stepsOf(events[2]) = 1
    /\ events[3].type = "mouseup"

\* C25: a frame navigation, whatever the recording flag is, puts one navigation
\* entry with its url at the end of the log, requests a write, and the entry is
\* rendered as the one line that goes to the url.
C25_NavigationRecorded ==
    [][FrameNavigated
          => /\ events' = Append(events, NavigationEv(Url))
             /\ linesOf(events'[Len(events')]) = <<"await page.goto('" \o Url \o "');">>
             /\ timerId'
             /\ outcome' = "accepted"]_vars

\* the log starts with a navigation and recording is off
C25_Witness ==
    /\ ~recording
    /\ Len(events) >= 1
    /\ events[1] = NavigationEv(Url)
    /\ outcome = "accepted"
    /\ burst = 1

\* C26: a captureScreenshot call appends nothing; its screenshot entry is put
\* at the end of the log in the step that completes the capture, after every
\* entry logged since the call; and no other step appends a screenshot entry.
C26_ScreenshotAfterCapture ==
    [][/\ Len(inflight') > Len(inflight) => UNCHANGED <<events, steps, timerId, sinceCall>>
       /\ Len(inflight') < Len(inflight)
              => \E i \in 1..Len(inflight) :
                     /\ events' = Append(events, ScreenshotEv(inflight[i].name, inflight[i].clip))
                     /\ inflight' = remove(inflight, i)
       /\ (Len(events') > Len(events) /\ events'[Len(events')].type = "screenshot")
              => Len(inflight') < Len(inflight)]_vars

\* an event was logged while a capture is awaiting its image
C26_Witness ==
    /\ inflight # <<>>
    /\ outcome = "accepted"
    /\ Len(events) >= 1
    /\ events[Len(events)].type = "comment"

\* C27: every screenshot entry of the log has its snapshot file, written in the
\* step that appended the entry.
C27_SnapshotPersisted ==
    \A i \in 1..Len(events) :
        events[i].type = "screenshot" => events[i].name \in snapshots

\* two screenshot entries, one named by the caller and one by the counter
C27_Witness ==
    /\ Len(events) = 2
    /\ events[1].type = "screenshot"
    /\ events[2].type = "screenshot"
    /\ events[1].name # events[2].name
    /\ snapshots = {events[1].name, events[2].name}

\* the screenshot entry i of the log was named by the counter
autoNamed(i) ==
    /\ events[i].type = "screenshot"
    /\ \E c \in 0..MaxEvents : events[i].name = autoName(c)

\* C28: the names the counter gave to the screenshot entries of the log are
\* pairwise distinct, and the first of them is the name numbered 1.
C28_AutoNamesFromOne ==
    /\ \A i, j \in 1..Len(events) :
           (i < j /\ autoNamed(i) /\ autoNamed(j)) => events[i].name # events[j].name
    /\ \A i \in 1..Len(events) :
           (autoNamed(i) /\ \A j \in 1..(i - 1) : ~autoNamed(j))
               => events[i].name = Title \o "-1.png"

\* C29: a failure of the script write stays inside the write cycle: no exception
\* leaves the timer callback.
C29_WriteFailureContained == outcome # "uncaught"

\* C30: a step leaves every entry of the log but the last two as and where it
\* was; the log grows by one entry (the old log is its front), keeps its length
\* (all but the tail stay) or loses one entry (the last two make room for one
\* dblclick), and nothing else.
C30_BoundedLookback ==
    [][LET len == Len(events)
           keep == IF len > 2 THEN len - 2 ELSE 0
       IN /\ SubSeq(events', 1, keep) = SubSeq(events, 1, keep)
          /\ \/ Len(events') = len + 1 /\ front(events', 1) = events
             \/ Len(events') = len /\ front(events', 1) = front(events, 1)
             \/ /\ len >= 2
                /\ Len(events') = len - 1
                /\ front(events', 1) = front(events, 2)
                /\ events'[len - 1].type = "dblclick"]_vars

\* six accepted events: a comment, and two clicks that a dblclick replaced
C30_Witness ==
    /\ burst = 6
    /\ Len(events) = 2
    /\ events[1].type = "comment"
    /\ events[2].type = "dblclick"

\* C31: endStep called while recording with a step open is accepted whatever
\* names were pushed: it pops the one name on top, appends one end boundary and
\* requests a write; step called with no name or with the empty name pushes
\* "step", and with another name pushes that name.
C31_EndAlwaysPops ==
    [][/\ (recording /\ steps # <<>> /\ apiCall(StepEndEv) /\ n' = n + 1)
              => /\ steps' = SubSeq(steps, 1, Len(steps) - 1)
                 /\ events' = Append(events, StepEndEv)
                 /\ timerId' /\ sinceCall' = 0
                 /\ burst' = burst + 1
       /\ \A nm \in EVERY_STEP_NAME :
              (recording /\ apiCall(StepStartEv(nm)) /\ n' = n + 1)
                  => steps' = Append(steps, IF nm \in {Undefined, ""} THEN "step" ELSE nm)]_vars

\* steps opened with the empty name and with no name, both closed again
C31_Witness ==
    /\ Len(events) = 4
    /\ events[1] = StepStartEv("")
    /\ events[2] = StepStartEv(Undefined)
    /\ events[3] = StepEndEv
    /\ events[4] = StepEndEv
    /\ steps = <<>>

\* C32: a step that changes the recording flag is startRecording or
\* stopRecording and changes nothing else: the log, the step stack, the button
\* flag, the pending write and the file stay; so a mouseup delivered after such a
\* cycle still meets the mousedown logged before it and makes one click.
C32_TogglesPreserve ==
    [][/\ recording' # recording
              => /\ StartRecording \/ StopRecording
                 /\ UNCHANGED <<events, steps, down, timerId, sinceCall, file, counter,
                                snapshots, inflight>>
       /\ \A p \in Points :
              (recording /\ last(events) = "mousedown" /\ delivered(MouseEv("mouseup", p)))
                  => /\ Len(events') = Len(events)
                     /\ events'[Len(events')].type = "click"]_vars

\* recording was stopped with a step open, a button down and a write pending
C32_Witness ==
    /\ ~recording
    /\ down
    /\ Len(steps) = 1
    /\ timerId
    /\ Len(events) = 2
    /\ events[2].type = "mousedown"

\* C33: a step that appends a screenshot entry to the log is taken with the
\* recording flag set.
C33_ScreenshotWhileRecording ==
    [][(Len(events') > Len(events) /\ events'[Len(events')].type = "screenshot")
          => recording]_vars

\* C34: the log never holds a mousedown entry with a mouseup entry right after it.
C34_NoDownUpPair ==
    \A i \in 1..(Len(events) - 1) :
        ~(events[i].type = "mousedown" /\ events[i + 1].type = "mouseup")

\* two clicks after a mousedown were replaced by a dblclick, which now follows it
C34_Witness ==
    /\ burst = 6
    /\ Len(events) = 2
    /\ events[1].type = "mousedown"
    /\ events[2].type = "dblclick"

\* C35: every mousemove entry of the log has a mousedown entry before it with no
\* mouseup and no click entry between the two.
C35_MovesInsideDrag ==
    \A i \in 1..Len(events) :
        events[i].type = "mousemove"
            => \E j \in 1..(i - 1) :
                   /\ events[j].type = "mousedown"
                   /\ \A k \in (j + 1)..(i - 1) : events[k].type \notin {"mouseup", "click"}

\* two clicks were replaced by a dblclick, and a press and one move of a drag
\* were logged after it
C35_Witness ==
    /\ burst = 7
    /\ Len(events) = 3
    /\ events[1].type = "dblclick"
    /\ events[2].type = "mousedown"
    /\ events[3].type = "mousemove"
    /\ stepsOf(events[3]) = 0

\* C36: every captureScreenshot call with area selection that is outstanding
\* completes, when the areas are delivered and the images taken: the calls
\* awaiting an area or an image are all gone at some later time.
C36_AreaCallsComplete == (inflight # <<>>) ~> (inflight = <<>>)

\* C37: the file changes only by a write of the timer, which covers at least one
\* accepted event and leaves nothing pending; the timer is armed or re-armed
\* only by an accepted event; a discarded event, a rejected call and a change
\* of the recording flag leave the timer and the file as they were.
C37_WritesFollowAccepts ==
    [][/\ Write => (burst >= 1 /\ burst' = 0 /\ ~timerId')
       /\ file' # file => Write
       /\ (timerId' /\ (~timerId \/ sinceCall' < sinceCall))
              => (outcome' = "accepted" /\ burst' = burst + 1)
       /\ (n' = n + 1 /\ outcome' \in {"discarded", "thrown", "gated", "called"})
              => UNCHANGED <<timerId, sinceCall, file, burst>>
       /\ recording' # recording => UNCHANGED <<timerId, sinceCall, file, burst>>]_vars

\* after a write an endStep was discarded, and no write is pending
C37_Witness ==
    /\ file # <<>>
    /\ ~timerId
    /\ burst = 0
    /\ outcome = "discarded"
    /\ quiet = DelayTicks

\* C38: whenever no write is pending and the file has been written, the file is
\* the render of the log and the open steps as they are; and no step changes
\* the log or the step stack without a write being pending after it.
C38_FileFollowsLog ==
    /\ [](~timerId /\ file # <<>> => file = script(events, steps))
    /\ [][(events' # events \/ steps' # steps) => (timerId' /\ sinceCall' = 0)]_vars

\* the file shows a log that ends with a screenshot taken after recording stopped
C38_Witness ==
    /\ ~timerId
    /\ file = script(events, steps)
    /\ Len(events) >= 2
    /\ events[Len(events)].type = "screenshot"
    /\ ~recording

\* C39: a call rejected because recording is off leaves the session as it was,
\* the counter of the screenshot names included.
C39_RejectedCallNoEffect ==
    [][(n' = n + 1 /\ outcome' = "thrown")
          => UNCHANGED <<events, steps, down, recording, counter, timerId, sinceCall,
                         file, snapshots, inflight>>]_vars

====
